---- MODULE Spec2Model ----
(***************************************************************************)
(* State-machine model of core/tester.py (SpeedTester): the bounded        *)
(* dispatcher of test_channels, the per-channel pipeline (whitelist,       *)
(* blocked host, probe, result handlers) and the IP guard bookkeeping.     *)
(*                                                                         *)
(* Granularity.  The engine runs on one asyncio event loop, so a step of   *)
(* the model is the code between two suspension points.  The condition's   *)
(* lock is only ever held by code that does not suspend (wait() releases   *)
(* it before suspending), so it is free at every suspension point and      *)
(* "async with self._task_condition" never has to queue.  Admissions are   *)
(* modelled one per step and the release in the finally block as a step    *)
(* of its own, which allows every interleaving the event loop can produce  *)
(* (and more).                                                             *)
(***************************************************************************)
EXTENDS Integers, Sequences, FiniteSets, TLC

\* ---------------------------------------------------------------- bounds
\* longest batch handed to test_channels
NumChannels == 2
\* number of test_channels invocations on one engine instance
MaxBatches == 2

\* ------------------------------------------------------------ text model
\* A channel name is a sequence of characters; str.lower() maps every
\* upper-case letter to its lower-case letter and leaves the rest alone.
LowerChar(c) ==
  CASE c = "A" -> "a"
    [] c = "B" -> "b"
    [] c = "U" -> "u"
    [] c = "D" -> "d"
    [] c = "P" -> "p"
    [] OTHER -> c

Lower(s) == [k \in DOMAIN s |-> LowerChar(s[k])]

Range(s) == {s[k] : k \in DOMAIN s}

\* A URL "scheme://netloc/seg/.../seg?q/.../q": the netloc is kept as its
\* tokens, the separators "@", ":", "[" and "]" being tokens of their own;
\* the path and the query are kept as the texts between their "/" (an empty
\* query: the URL has no "?").
U1 == [scheme |-> "http", netloc |-> <<"user", "@", "h1", ":", "8080">>,
       path |-> <<"live", "a">>, query |-> <<>>]
U2 == [scheme |-> "rtp", netloc |-> <<"h2", ":", "1234">>, path |-> <<>>,
       query |-> <<>>]
UOld == [scheme |-> "http", netloc |-> <<"h3">>, path |-> <<"udp", "old">>,
         query |-> <<>>]

Urls == {U1, U2, UOld}

\* index of the first occurrence of tok in s, 0 when absent
RECURSIVE FirstIndex(_, _, _)
FirstIndex(s, tok, k) ==
  IF k > Len(s) THEN 0
  ELSE IF s[k] = tok THEN k
  ELSE FirstIndex(s, tok, k + 1)

\* index of the last occurrence of tok in s, 0 when absent
RECURSIVE LastIndex(_, _, _)
LastIndex(s, tok, k) ==
  IF k < 1 THEN 0
  ELSE IF s[k] = tok THEN k
  ELSE LastIndex(s, tok, k - 1)

\* netloc.split('@')[-1]
AfterLastAt(netloc) ==
  LET k == LastIndex(netloc, "@", Len(netloc))
  IN SubSeq(netloc, k + 1, Len(netloc))

\* _extract_ip_from_url
ExtractIp(url) ==
  LET netloc == AfterLastAt(url.netloc)
  IN IF "[" \in Range(netloc) /\ "]" \in Range(netloc)
     THEN SubSeq(netloc, 1, FirstIndex(netloc, "]", 1))
     ELSE LET c == FirstIndex(netloc, ":", 1)
          IN IF c = 0 THEN netloc ELSE SubSeq(netloc, 1, c - 1)

Hosts == {ExtractIp(u) : u \in Urls}

\* str.lower() on a token of a URL
LowerTok(t) ==
  CASE t = "UDP" -> "udp"
    [] t = "RTP" -> "rtp"
    [] t = "HTTP" -> "http"
    [] OTHER -> t

\* the text of the URL cut at every "/": "scheme:", the empty text between
\* the two slashes, the netloc, the path segments, the rest of the query;
\* the "?" and the start of the query belong to the piece before them
UrlPieces(url) ==
  LET base == <<<<url.scheme, ":">>, <<>>, url.netloc>>
                \o [k \in DOMAIN url.path |-> <<url.path[k]>>]
  IN IF url.query = <<>> THEN base
     ELSE SubSeq(base, 1, Len(base) - 1)
          \o <<base[Len(base)] \o <<"?", url.query[1]>> >>
          \o [k \in 1..(Len(url.query) - 1) |-> <<url.query[k + 1]>>]

\* _is_udp_url: the lower-cased URL starts with udp:// or rtp://, or
\* "/rtp/" or "/udp/" is found anywhere in it, that is, one of its pieces
\* with a "/" on both sides is rtp or udp
IsUdpUrl(url) ==
  \/ LowerTok(url.scheme) \in {"udp", "rtp"}
  \/ \E k \in 2..(Len(UrlPieces(url)) - 1) :
       [j \in DOMAIN UrlPieces(url)[k] |-> LowerTok(UrlPieces(url)[k][j])]
         \in {<<"rtp">>, <<"udp">>}

\* ------------------------------------------------------- configuration
OsNames == {"nt", "posix"}
ConcurrencyArgs == {0, 1, 2}
MaxFailuresArgs == {1}
MaxAttemptsArgs == {3}

Min(a, b) == IF a < b THEN a ELSE b
Max(a, b) == IF a > b THEN a ELSE b

\* __init__: the effective concurrency
EffectiveConcurrency(os, c) ==
  IF os = "nt" THEN Min(c, 30) ELSE Max(1, Min(c, 100))

\* protocol thresholds set by __init__ (defaults)
min_download_speed == 100
min_udp_download_speed == 30
max_udp_latency == 300
max_http_latency == 1000

\* ------------------------------------------------------------- inputs
NameUpper == <<"A", "b">>
NameLower == <<"a", "b">>
NameOther == <<"x">>

NewChannel(n, u) ==
  [name |-> n, url |-> u, status |-> "unknown", response_time |-> 0,
   download_speed |-> 0]

ChannelPool == {NewChannel(NameUpper, U1), NewChannel(NameOther, U2)}

RECURSIVE SeqsUpTo(_, _)
SeqsUpTo(S, n) ==
  IF n = 0 THEN {<<>>}
  ELSE LET shorter == SeqsUpTo(S, n - 1)
       IN shorter \cup {Append(s, x) : s \in {t \in shorter : Len(t) = n - 1}, x \in S}

BatchArgs == SeqsUpTo(ChannelPool, NumChannels)

\* an optional set argument: None, or a set object with its elements
None == [supplied |-> FALSE, elems |-> {}]
SetObj(S) == [supplied |-> TRUE, elems |-> S]

WhiteListArgs == {None, SetObj({NameLower})}
FailedUrlsArgs == {SetObj({}), SetObj({UOld})}

\* what the network does to one probe
NetResponses ==
  {[head |-> "200", latency |-> 50, get |-> "ok", speed |-> 200],
   [head |-> "200", latency |-> 50, get |-> "ok", speed |-> 10],
   [head |-> "timeout", latency |-> 0, get |-> "none", speed |-> 0]}

\* ---------------------------------------------------------------- state
VARIABLES
  concurrency,          \* self.concurrency
  _max_active_tasks,    \* self._max_active_tasks
  _active_tasks,        \* self._active_tasks
  max_failures_per_ip,  \* self.max_failures_per_ip
  max_attempts,         \* self.max_attempts
  failed_ips,           \* self.failed_ips, host -> count (defaultdict(int))
  blocked_ips,          \* self.blocked_ips
  ip_cooldown,          \* self.ip_cooldown, the hosts it has an entry for
  success_count,        \* self.success_count
  total_count,          \* self.total_count
  pc,                   \* test_channels: "idle", "running", "returned",
                        \* "raised" (left by an exception)
  connector,            \* the batch's TCPConnector: "none", "open", "closed"
  channels,             \* the batch, mutated in place
  white_list,           \* local white_list of test_channels
  failed_urls,          \* elements of the set the engine adds to
  caller_failed,        \* the caller's failed_urls argument
  failed_aliased,       \* the engine's set is the caller's object
  dpc,                  \* dispatcher loop: "idle", "admit" (at wait_for),
                        \* "waiting" (in wait), "woken" (notified), "gather"
  idx,                  \* index of the channel the loop is at
  tpc,                  \* per task: "none", "ready", "probing", "finally",
                        \* "done", "raised" (ended by an exception)
  dispatched,           \* per channel: create_task calls
  probes,               \* per channel: _unified_test calls
  cb_count,             \* per channel: progress_cb calls
  offline_by_host,      \* per host: channels set offline since the last reset
  batches,              \* test_channels invocations so far
  fn_in,                \* arguments of a function applied on its own
  fn_out                \* <<>>, or <<its result>>

vars == <<concurrency, _max_active_tasks, _active_tasks, max_failures_per_ip,
          max_attempts, failed_ips, blocked_ips, ip_cooldown, success_count,
          total_count, pc, connector, channels, white_list, failed_urls,
          caller_failed, failed_aliased, dpc, idx, tpc, dispatched, probes,
          cb_count, offline_by_host, batches, fn_in, fn_out>>

config == <<concurrency, _max_active_tasks, max_failures_per_ip, max_attempts>>
scratch == <<fn_in, fn_out>>
engine == <<concurrency, _max_active_tasks, _active_tasks, max_failures_per_ip,
            max_attempts, failed_ips, blocked_ips, ip_cooldown, success_count,
            total_count, pc, connector, channels, white_list, failed_urls,
            caller_failed, failed_aliased, dpc, idx, tpc, dispatched, probes,
            cb_count, offline_by_host, batches>>
guard == <<failed_ips, blocked_ips, ip_cooldown>>
stats == <<success_count, total_count>>
outsets == <<failed_urls, caller_failed, failed_aliased>>
ghosts == <<dispatched, probes, cb_count, offline_by_host>>

Slots == 1..(NumChannels)

\* ------------------------------------------------------------- helpers
\* "x or set()" on an optional set argument: None and the empty set are
\* falsy and give a new empty set, any other set is used as it is
IsTruthy(arg) == arg.supplied /\ arg.elems # {}

\* variant: the name is looked up as written
IsInWhiteListExact(name, wl) ==
  IF wl = {} THEN FALSE ELSE name \in wl

\* _is_in_white_list
IsInWhiteList(name, wl) ==
  IF wl = {} THEN FALSE ELSE Lower(name) \in wl

\* variant: admits while the counter is at the limit
SlotAvailableAtLimit(active, limit) == active <= limit

\* the predicate of wait_for in _process_batch_with_limits
SlotAvailable(active, limit) == active < limit

\* variant: the release wakes nobody
NotifyNone(d) == d

\* notify_all: a dispatcher waiting on the condition is woken and
\* evaluates the predicate of wait_for again
NotifyAll(d) == IF d = "waiting" THEN "woken" ELSE d

\* variant: the loop skips a channel
SkipIndex(k) == k + 2

\* the for loop moves to the next channel
NextIndex(k) == k + 1

\* variant: the callback is called by the handler and by the finally block
ProgressCbTwice(n) == n + 2

\* progress_cb(1)
ProgressCb(n) == n + 1

\* variant: only the latency is looked at
HeadPassesAnyStatus(status, latency, max_latency) == ~(latency > max_latency)

\* phase 1 of _unified_test goes on to phase 2
HeadPasses(status, latency, max_latency) ==
  ~(latency > max_latency \/ status # "200")

\* variant: a speed equal to the minimum is not enough
SpeedAbove(speed, min_speed) == speed > min_speed

\* the verdict of phase 2
SpeedOk(speed, min_speed) == speed >= min_speed

MinSpeed(url) ==
  IF IsUdpUrl(url) THEN min_udp_download_speed ELSE min_download_speed
MaxLatency(url) ==
  IF IsUdpUrl(url) THEN max_udp_latency ELSE max_http_latency

\* what session.head / session.get raise
Raising == {"timeout", "client_error", "error"}

\* _unified_test: the exception it lets out ("none": it returns), its
\* result (success, speed, latency) and the requests it has issued
UnifiedTest(url, net) ==
  IF net.head \in Raising
  THEN [raised |-> "none", success |-> FALSE, speed |-> 0, latency |-> 0,
        requests |-> <<"HEAD">>]
  ELSE IF ~HeadPasses(net.head, net.latency, MaxLatency(url))
  THEN [raised |-> "none", success |-> FALSE, speed |-> 0,
        latency |-> net.latency, requests |-> <<"HEAD">>]
  ELSE IF net.get \in Raising
  THEN [raised |-> "none", success |-> FALSE, speed |-> 0, latency |-> 0,
        requests |-> <<"HEAD", "GET">>]
  ELSE [raised |-> "none", success |-> SpeedOk(net.speed, MinSpeed(url)),
        speed |-> net.speed, latency |-> net.latency,
        requests |-> <<"HEAD", "GET">>]

\* channel after the whitelist shortcut
WhiteListSkip(ch) == [ch EXCEPT !.status = "online"]

\* channel after _handle_success
HandleSuccessChannel(ch, speed, latency) ==
  [ch EXCEPT !.status = "online", !.response_time = latency,
             !.download_speed = speed]

\* variant: the status is left as it was
LeaveStatus(ch) == ch

\* channel after _handle_failure, _handle_timeout, _handle_client_error,
\* _handle_error, the blocked shortcut
MarkOffline(ch) == [ch EXCEPT !.status = "offline"]

\* variant: the increment is lost
RecordFailureLost(f, url) == f

\* variant: the counter goes down
RecordFailureDown(f, url) == [f EXCEPT ![ExtractIp(url)] = @ - 1]

\* self.failed_ips[ip] += 1
RecordFailure(f, url) == [f EXCEPT ![ExtractIp(url)] = @ + 1]

\* one more channel of the URL's host has been set offline
CountOffline(o, url) == [o EXCEPT ![ExtractIp(url)] = @ + 1]

\* variant: the latency is looked at first
FailureReasonLatencyFirst(speed, latency, is_udp) ==
  IF latency > (IF is_udp THEN max_udp_latency ELSE max_http_latency)
  THEN "latency exceeded"
  ELSE IF speed > 0
          /\ speed < (IF is_udp THEN min_udp_download_speed
                               ELSE min_download_speed)
  THEN "insufficient speed"
  ELSE "connection failed"

\* the reason _handle_failure gives
FailureReason(speed, latency, is_udp) ==
  IF speed > 0
     /\ speed < (IF is_udp THEN min_udp_download_speed
                          ELSE min_download_speed)
  THEN "insufficient speed"
  ELSE IF latency > (IF is_udp THEN max_udp_latency ELSE max_http_latency)
  THEN "latency exceeded"
  ELSE "connection failed"

\* the probe of _test_single_channel and the handler its result selects:
\* the channel afterwards, whether the failure bookkeeping ran, the reason
\* given, and what _unified_test had returned
TestSingleChannel(ch, net) ==
  LET r == UnifiedTest(ch.url, net) IN
    IF r.raised = "timeout"
    THEN [channel |-> MarkOffline(ch), failed |-> TRUE, reason |-> "timeout",
          result |-> r]
    ELSE IF r.raised = "client_error"
    THEN [channel |-> MarkOffline(ch), failed |-> TRUE,
          reason |-> "client error", result |-> r]
    ELSE IF r.raised = "error"
    THEN [channel |-> MarkOffline(ch), failed |-> TRUE,
          reason |-> "unexpected error", result |-> r]
    ELSE IF r.success
    THEN [channel |-> HandleSuccessChannel(ch, r.speed, r.latency),
          failed |-> FALSE, reason |-> "none", result |-> r]
    ELSE [channel |-> MarkOffline(ch), failed |-> TRUE,
          reason |-> FailureReason(r.speed, r.latency, IsUdpUrl(ch.url)),
          result |-> r]

\* variant: the count of the earlier invocation is kept
KeepSuccess(n) == n

\* self.success_count = 0 at the start of test_channels
ResetSuccess(n) == 0

\* variant: gather lets the first exception of a task through
GatherPropagates(t) ==
  IF \E k \in DOMAIN t : t[k] = "raised" THEN "raised" ELSE "returned"

\* how test_channels goes on after gather(..., return_exceptions=True)
Gather(t) == "returned"

\* the except clause of test_channels: swallow or re-raise
AfterExcept(has_abort) == IF has_abort THEN "returned" ELSE "raised"

\* variant: the connector is closed after the try statement
CloseAfterTry(exit) == IF exit = "raised" THEN "open" ELSE "closed"

\* the finally clause of test_channels
ConnectorAtExit(exit) == "closed"

\* variant: the counters survive
KeptCounters(f) == f

\* self.failed_ips.clear()
ClearedCounters(f) == [h \in DOMAIN f |-> 0]

\* ------------------------------------------------------------------ Init
EngineInit ==
  /\ \E os \in OsNames, c \in ConcurrencyArgs :
       /\ concurrency = EffectiveConcurrency(os, c)
       /\ _max_active_tasks = EffectiveConcurrency(os, c)
  /\ max_failures_per_ip \in MaxFailuresArgs
  /\ \E m \in MaxAttemptsArgs : max_attempts = Max(1, m)
  /\ _active_tasks = 0
  /\ failed_ips = [h \in Hosts |-> 0]
  /\ blocked_ips = {}
  /\ ip_cooldown = {}
  /\ success_count = 0
  /\ total_count = 0
  /\ pc = "idle"
  /\ connector = "none"
  /\ channels = <<>>
  /\ white_list = {}
  /\ failed_urls = {}
  /\ caller_failed = None
  /\ failed_aliased = FALSE
  /\ dpc = "idle"
  /\ idx = 1
  /\ tpc = [k \in Slots |-> "none"]
  /\ dispatched = [k \in Slots |-> 0]
  /\ probes = [k \in Slots |-> 0]
  /\ cb_count = [k \in Slots |-> 0]
  /\ offline_by_host = [h \in Hosts |-> 0]
  /\ batches = 0

Init ==
  /\ EngineInit
  /\ fn_in = <<>>
  /\ fn_out = <<>>

\* --------------------------------------------------------------- actions
\* test_channels up to the first iteration of the dispatcher loop
TestChannels(chs, wl, fu) ==
  /\ pc \in {"idle", "returned", "raised"}
  /\ batches < MaxBatches
  /\ batches' = batches + 1
  /\ pc' = "running"
  /\ connector' = "open"
  /\ channels' = chs
  /\ white_list' = IF IsTruthy(wl) THEN wl.elems ELSE {}
  /\ failed_aliased' = IsTruthy(fu)
  /\ failed_urls' = IF IsTruthy(fu) THEN fu.elems ELSE {}
  /\ caller_failed' = fu
  /\ total_count' = Len(chs)
  /\ success_count' = ResetSuccess(success_count)
  /\ dpc' = IF Len(chs) = 0 THEN "gather" ELSE "admit"
  /\ idx' = 1
  /\ tpc' = [k \in Slots |-> "none"]
  /\ dispatched' = [k \in Slots |-> 0]
  /\ probes' = [k \in Slots |-> 0]
  /\ cb_count' = [k \in Slots |-> 0]
  /\ UNCHANGED <<config, scratch, _active_tasks, guard, offline_by_host>>

\* test_channels when the session cannot be set up: the except clause and
\* the finally clause run, no channel is processed and the two sets are not
\* used (the invocation is given none)
TransportFails(chs, has_abort) ==
  /\ pc \in {"idle", "returned", "raised"}
  /\ batches < MaxBatches
  /\ batches' = batches + 1
  /\ pc' = AfterExcept(has_abort)
  /\ connector' = ConnectorAtExit(AfterExcept(has_abort))
  /\ channels' = chs
  /\ white_list' = {}
  /\ failed_aliased' = FALSE
  /\ failed_urls' = {}
  /\ caller_failed' = None
  /\ total_count' = Len(chs)
  /\ success_count' = ResetSuccess(success_count)
  /\ dpc' = "idle"
  /\ idx' = 1
  /\ tpc' = [k \in Slots |-> "none"]
  /\ dispatched' = [k \in Slots |-> 0]
  /\ probes' = [k \in Slots |-> 0]
  /\ cb_count' = [k \in Slots |-> 0]
  /\ UNCHANGED <<config, scratch, _active_tasks, guard, offline_by_host>>

\* a slot is free: take it and create the task of the channel
Admit ==
  /\ pc = "running" /\ dpc \in {"admit", "woken"}
  /\ SlotAvailable(_active_tasks, _max_active_tasks)
  /\ _active_tasks' = _active_tasks + 1
  /\ tpc' = [tpc EXCEPT ![idx] = "ready"]
  /\ dispatched' = [dispatched EXCEPT ![idx] = @ + 1]
  /\ idx' = NextIndex(idx)
  /\ dpc' = IF NextIndex(idx) > Len(channels) THEN "gather" ELSE "admit"
  /\ UNCHANGED <<config, scratch, guard, stats, pc, connector, channels,
                 white_list, outsets, probes, cb_count, offline_by_host,
                 batches>>

\* no slot is free: wait on the condition
Block ==
  /\ pc = "running" /\ dpc \in {"admit", "woken"}
  /\ ~SlotAvailable(_active_tasks, _max_active_tasks)
  /\ dpc' = "waiting"
  /\ UNCHANGED <<config, scratch, _active_tasks, guard, stats, pc, connector,
                 channels, white_list, outsets, idx, tpc, ghosts, batches>>

\* add a URL to the engine's set, which may be the caller's object
AddFailed(url) ==
  /\ failed_urls' = failed_urls \cup {url}
  /\ caller_failed' = IF failed_aliased
                      THEN SetObj(caller_failed.elems \cup {url})
                      ELSE caller_failed
  /\ UNCHANGED failed_aliased

\* _test_single_channel up to its first suspension
StartTask(i) ==
  /\ pc = "running" /\ i \in DOMAIN channels /\ tpc[i] = "ready"
  /\ LET ch == channels[i] IN
       IF IsInWhiteList(ch.name, white_list)
       THEN /\ channels' = [channels EXCEPT ![i] = WhiteListSkip(ch)]
            /\ tpc' = [tpc EXCEPT ![i] = "finally"]
            /\ UNCHANGED <<outsets, probes, offline_by_host>>
       ELSE IF ch.url \in blocked_ips
       THEN /\ channels' = [channels EXCEPT ![i] = MarkOffline(ch)]
            /\ AddFailed(ch.url)
            /\ offline_by_host' = CountOffline(offline_by_host, ch.url)
            /\ tpc' = [tpc EXCEPT ![i] = "finally"]
            /\ UNCHANGED probes
       ELSE /\ tpc' = [tpc EXCEPT ![i] = "probing"]
            /\ probes' = [probes EXCEPT ![i] = @ + 1]
            /\ UNCHANGED <<channels, outsets, offline_by_host>>
  /\ UNCHANGED <<config, scratch, _active_tasks, guard, stats, pc, connector,
                 white_list, dpc, idx, dispatched, cb_count, batches>>

\* _unified_test returns or raises; the result handlers run
ProbeComplete(i, net) ==
  /\ pc = "running" /\ i \in DOMAIN channels /\ tpc[i] = "probing"
  /\ LET ch == channels[i]
         o == TestSingleChannel(ch, net)
     IN /\ channels' = [channels EXCEPT ![i] = o.channel]
        /\ IF o.failed
           THEN /\ AddFailed(ch.url)
                /\ failed_ips' = RecordFailure(failed_ips, ch.url)
                /\ offline_by_host' = CountOffline(offline_by_host, ch.url)
                /\ UNCHANGED <<success_count, blocked_ips, ip_cooldown>>
           ELSE /\ success_count' = success_count + 1
                /\ UNCHANGED <<outsets, guard, offline_by_host>>
  /\ tpc' = [tpc EXCEPT ![i] = "finally"]
  /\ UNCHANGED <<config, scratch, _active_tasks, total_count, pc, connector,
                 white_list, dpc, idx, dispatched, probes, cb_count, batches>>

\* the finally block of _test_single_channel_limited; the callback returns
\* or raises, and what it raises ends the task
FinallyBlock(i, cb_raises) ==
  /\ pc = "running" /\ i \in DOMAIN channels /\ tpc[i] = "finally"
  /\ _active_tasks' = _active_tasks - 1
  /\ dpc' = NotifyAll(dpc)
  /\ cb_count' = [cb_count EXCEPT ![i] = ProgressCb(@)]
  /\ tpc' = [tpc EXCEPT ![i] = IF cb_raises THEN "raised" ELSE "done"]
  /\ UNCHANGED <<config, scratch, guard, stats, pc, connector, channels,
                 white_list, outsets, idx, dispatched, probes,
                 offline_by_host, batches>>

Finally(i) == FinallyBlock(i, FALSE)

FinallyRaises(i) == FinallyBlock(i, TRUE)

\* gather has every task's result; the session and the connector close
Return ==
  /\ pc = "running" /\ dpc = "gather"
  /\ \A k \in Slots : tpc[k] \in {"none", "done", "raised"}
  /\ pc' = Gather(tpc)
  /\ connector' = ConnectorAtExit(Gather(tpc))
  /\ dpc' = "idle"
  /\ UNCHANGED <<config, scratch, _active_tasks, guard, stats, channels,
                 white_list, outsets, idx, tpc, ghosts, batches>>

\* what clear_resources does to the engine
ClearBody ==
  /\ pc \in {"idle", "returned", "raised"}
  /\ failed_ips' = ClearedCounters(failed_ips)
  /\ blocked_ips' = {}
  /\ ip_cooldown' = {}
  /\ _active_tasks' = 0
  /\ offline_by_host' = [h \in Hosts |-> 0]
  /\ UNCHANGED <<config, stats, pc, connector, channels, white_list, outsets,
                 dpc, idx, tpc, dispatched, probes, cb_count, batches>>

\* clear_resources, called between runs
ClearResources == ClearBody /\ UNCHANGED scratch

Next ==
  \/ \E chs \in BatchArgs, wl \in WhiteListArgs, fu \in FailedUrlsArgs :
       TestChannels(chs, wl, fu)
  \/ Admit
  \/ Block
  \/ \E i \in Slots : StartTask(i)
  \/ \E i \in Slots, net \in NetResponses : ProbeComplete(i, net)
  \/ \E i \in Slots : Finally(i)
  \/ Return
  \/ ClearResources

Spec == Init /\ [][Next]_vars

\* invocations with the faults of the surroundings: the session cannot be
\* set up, the progress callback raises (the caller passes a fresh failed
\* set and does not reset the engine)
NextFaults ==
  \/ \E chs \in BatchArgs, wl \in WhiteListArgs :
       TestChannels(chs, wl, SetObj({}))
  \/ Admit
  \/ Block
  \/ \E i \in Slots : StartTask(i)
  \/ \E i \in Slots, net \in NetResponses : ProbeComplete(i, net)
  \/ \E i \in Slots : Finally(i)
  \/ Return
  \/ \E chs \in BatchArgs, has_abort \in BOOLEAN : TransportFails(chs, has_abort)
  \/ \E i \in Slots : FinallyRaises(i)

SpecFaults == Init /\ [][NextFaults]_vars

\* the event loop runs a step of the dispatcher or of a task whenever one
\* can run, and a started probe ends (each request carries a timeout)
LiveSpec ==
  /\ Spec
  /\ WF_vars(\/ Admit \/ Block \/ Return
             \/ \E i \in Slots :
                  \/ StartTask(i)
                  \/ Finally(i)
                  \/ \E net \in NetResponses : ProbeComplete(i, net))

\* ------------------------------------------- _is_in_white_list on its own
WlChars == {"a", "A", "b"}
WlNames == {s \in SeqsUpTo(WlChars, 2) : Len(s) >= 1}
WlEntries == {<<"a">>, <<"A">>, <<"a", "b">>, <<"A", "b">>}

InitWhiteList ==
  /\ EngineInit
  /\ concurrency = 1
  /\ fn_in \in [name : WlNames, wl : SUBSET WlEntries]
  /\ fn_out = <<>>

CheckWhiteList ==
  /\ fn_out = <<>>
  /\ fn_out' = <<IsInWhiteList(fn_in.name, fn_in.wl)>>
  /\ UNCHANGED <<engine, fn_in>>

SpecWhiteList == InitWhiteList /\ [][CheckWhiteList]_vars

\* ------------------- invocations and resets, with a record of the resets
\* hosts whose counter has reached max_failures_per_ip
AtThreshold == {h \in Hosts : failed_ips[h] >= max_failures_per_ip}

InitReset ==
  /\ EngineInit
  /\ fn_in = [due |-> {}]
  /\ fn_out = <<0>>

\* clear_resources; fn_in keeps the hosts that were at the threshold and
\* fn_out changes with every call
ClearResourcesNoted ==
  /\ ClearBody
  /\ fn_in' = [due |-> AtThreshold]
  /\ fn_out' = <<1 - fn_out[1]>>

NextReset ==
  \/ \E chs \in BatchArgs, wl \in WhiteListArgs, fu \in FailedUrlsArgs :
       TestChannels(chs, wl, fu)
  \/ Admit
  \/ Block
  \/ \E i \in Slots : StartTask(i)
  \/ \E i \in Slots, net \in NetResponses : ProbeComplete(i, net)
  \/ \E i \in Slots : Finally(i)
  \/ Return
  \/ ClearResourcesNoted

SpecReset == InitReset /\ [][NextReset]_vars

\* ------------------------------------- the probe of one channel on its own
ProbeNets ==
  [head : {"200", "404", "timeout", "client_error"}, latency : {50, 400, 1500},
   get : {"ok", "timeout"}, speed : {0, 10, 30, 50, 100, 200}]

\* channels as an earlier run may have left them
ProbeChannels ==
  {[NewChannel(NameOther, u) EXCEPT !.response_time = v, !.download_speed = v] :
     u \in Urls, v \in {0, 7}}

InitProbe ==
  /\ EngineInit
  /\ concurrency = 1
  /\ fn_in \in [ch : ProbeChannels, net : ProbeNets]
  /\ fn_out = <<>>

RunProbe ==
  /\ fn_out = <<>>
  /\ fn_out' = <<TestSingleChannel(fn_in.ch, fn_in.net)>>
  /\ UNCHANGED <<engine, fn_in>>

SpecProbe == InitProbe /\ [][RunProbe]_vars

\* ------------------------------------------ PlaylistParser.parse on its own
\* longest run of playlist lines that are not padding
MaxCore == 3

\* the lines of a playlist, by what _parse_batch does with them
ExtinfGroup == [kind |-> "extinf", group |-> "News", name |-> "CCTV1"]
ExtinfPlain == [kind |-> "extinf", group |-> "", name |-> "CCTV2"]
UrlLine == [kind |-> "url", url |-> "http://h1/a"]
UrlDollar == [kind |-> "url", url |-> "http://h1/a$hd"]
UrlBad == [kind |-> "url", url |-> "http:bad"]
PairLine == [kind |-> "pair", name |-> "CCTV3", url |-> "http://h2/b"]
BlankLine == [kind |-> "blank"]

CoreLines ==
  {ExtinfGroup, ExtinfPlain, UrlLine, UrlDollar, UrlBad, PairLine, BlankLine}

\* None as a category and as an #EXTINF line, and the category given to a
\* channel that has none ("未分类")
NoValue == "None"
NoLine == [kind |-> "none"]
Uncategorised == "uncategorised"

\* Python's "x or y" on an optional text
OrElse(x, y) == IF x = NoValue \/ x = "" THEN y ELSE x

\* batch_size of parse
BatchSize(n) == Min(1000, IF n \div 10 = 0 THEN 100 ELSE n \div 10)

\* _clean_url_with_debug: the text before "$", "" for a URL without netloc
CleanUrl(u) ==
  CASE u = "http://h1/a$hd" -> "http://h1/a"
    [] u = "http:bad" -> ""
    [] OTHER -> u

\* the loop over the lines of _parse_batch: the matches it collects
RECURSIVE ScanBatch(_, _, _, _, _)
ScanBatch(batch, k, current_category, current_extinf, channel_matches) ==
  IF k > Len(batch) THEN channel_matches
  ELSE LET line == batch[k] IN
    IF line.kind = "blank"
    THEN ScanBatch(batch, k + 1, current_category, current_extinf,
                   channel_matches)
    ELSE IF line.kind = "extinf"
    THEN ScanBatch(batch, k + 1,
                   IF line.group # "" THEN line.group ELSE current_category,
                   line, channel_matches)
    ELSE IF current_extinf.kind # "none" /\ line.kind = "url"
    THEN ScanBatch(batch, k + 1, current_category, NoLine,
                   Append(channel_matches,
                          [name |-> current_extinf.name, url |-> line.url,
                           category |-> OrElse(current_category,
                                               Uncategorised)]))
    ELSE IF line.kind = "pair"
    THEN ScanBatch(batch, k + 1, current_category, current_extinf,
                   Append(channel_matches,
                          [name |-> line.name, url |-> line.url,
                           category |-> current_category]))
    ELSE ScanBatch(batch, k + 1, current_category, current_extinf,
                   channel_matches)

\* the second loop of _parse_batch: a channel for every match whose URL is
\* valid
RECURSIVE MakeChannels(_, _)
MakeChannels(channel_matches, k) ==
  IF k > Len(channel_matches) THEN <<>>
  ELSE LET m == channel_matches[k] IN
    (IF CleanUrl(m.url) = "" THEN <<>>
     ELSE <<[name |-> m.name, url |-> CleanUrl(m.url),
             category |-> OrElse(m.category, Uncategorised)]>>)
    \o MakeChannels(channel_matches, k + 1)

\* _parse_batch
ParseBatch(batch, current_category, current_extinf) ==
  MakeChannels(ScanBatch(batch, 1, current_category, current_extinf, <<>>), 1)

\* the loop of parse from line i on (0-based); current_category follows the
\* channels yielded, current_extinf stays None
RECURSIVE ParseFrom(_, _, _)
ParseFrom(lines, i, current_category) ==
  IF i >= Len(lines) THEN <<>>
  ELSE LET batch_size == BatchSize(Len(lines))
           batch == SubSeq(lines, i + 1, Min(i + batch_size, Len(lines)))
           chans == ParseBatch(batch, current_category, NoLine)
       IN chans \o ParseFrom(lines, i + batch_size,
                             IF chans = <<>> THEN current_category
                             ELSE chans[Len(chans)].category)

\* parse
Parse(lines) == ParseFrom(lines, 0, NoValue)

\* n blank lines
Blanks(n) == [k \in 1..n |-> BlankLine]

\* playlists: some blank lines, a few lines, blank lines up to a length
Playlists ==
  {Blanks(lead) \o core \o Blanks(Max(0, total - lead - Len(core))) :
     lead \in {0, 1}, core \in SeqsUpTo(CoreLines, MaxCore),
     total \in {0, 10, 20}}

InitParse ==
  /\ EngineInit
  /\ concurrency = 1
  /\ fn_in \in [lines : Playlists]
  /\ fn_out = <<>>

RunParse ==
  /\ fn_out = <<>>
  /\ fn_out' = <<Parse(fn_in.lines)>>
  /\ UNCHANGED <<engine, fn_in>>

SpecParse == InitParse /\ [][RunParse]_vars

\* ------------------------------ the concurrency of __init__ on its own
ConcurrencyInputs == (0 - 3)..103

InitClamp ==
  /\ EngineInit
  /\ concurrency = 1
  /\ fn_in \in [os : OsNames, c : ConcurrencyInputs]
  /\ fn_out = <<>>

Clamp ==
  /\ fn_out = <<>>
  /\ fn_out' = <<EffectiveConcurrency(fn_in.os, fn_in.c)>>
  /\ UNCHANGED <<engine, fn_in>>

SpecClamp == InitClamp /\ [][Clamp]_vars

\* --------------------------------------------- _is_udp_url on its own
UdpSchemes == {"http", "https", "rtsp", "udp", "rtp", "RTP"}
UdpNetlocs == {<<"h1">>, <<"udp">>}
UdpSegments == {"live", "udp", "UDP", "rtp", "udpx"}
UdpQueries == {<<>>, <<"x=1">>, <<"src=", "udp", "1">>}

InitUdp ==
  /\ EngineInit
  /\ concurrency = 1
  /\ fn_in \in [scheme : UdpSchemes, netloc : UdpNetlocs,
                 path : SeqsUpTo(UdpSegments, 2), query : UdpQueries]
  /\ fn_out = <<>>

ClassifyUrl ==
  /\ fn_out = <<>>
  /\ fn_out' = <<IsUdpUrl(fn_in)>>
  /\ UNCHANGED <<engine, fn_in>>

SpecUdp == InitUdp /\ [][ClassifyUrl]_vars

\* ------------------------------ the reason of _handle_failure on its own
ReasonSpeeds == {0, 10, 29, 30, 50, 99, 100, 200}
ReasonLatencies == {0, 50, 300, 301, 1000, 1001, 1500}

InitReason ==
  /\ EngineInit
  /\ concurrency = 1
  /\ fn_in \in [speed : ReasonSpeeds, latency : ReasonLatencies,
                 is_udp : BOOLEAN]
  /\ fn_out = <<>>

GiveReason ==
  /\ fn_out = <<>>
  /\ fn_out' = <<FailureReason(fn_in.speed, fn_in.latency, fn_in.is_udp)>>
  /\ UNCHANGED <<engine, fn_in>>

SpecReason == InitReason /\ [][GiveReason]_vars

\* ================================================================ claims
Terminal == {"online", "offline"}
ActiveTasks == {k \in Slots : tpc[k] \in {"ready", "probing", "finally"}}
Whitelisted(k) == k \in DOMAIN channels /\ Lower(channels[k].name) \in white_list

\* C1: the number of admitted and not yet released probes, and the counter
\* that tracks it, never exceed the effective concurrency limit, and the
\* counter never drops below 0.
C1_ConcurrencyBound ==
  /\ _active_tasks >= 0
  /\ _active_tasks <= _max_active_tasks
  /\ Cardinality(ActiveTasks) <= _max_active_tasks
  /\ _active_tasks = Cardinality(ActiveTasks)

\* the dispatcher waits at the limit while a probe is running
C1_Witness ==
  /\ dpc = "waiting"
  /\ _max_active_tasks >= 1
  /\ _active_tasks = _max_active_tasks
  /\ \E k \in Slots : tpc[k] = "probing"

\* C2: when test_channels has returned, every channel of the batch is
\* online or offline.
C2_TerminalStatus ==
  pc = "returned" => \A k \in DOMAIN channels : channels[k].status \in Terminal

\* returned with a whitelisted channel online and a probed channel offline
C2_Witness ==
  /\ pc = "returned"
  /\ Len(channels) = 2
  /\ channels[1].status = "online" /\ probes[1] = 0
  /\ channels[2].status = "offline" /\ probes[2] = 1

\* C3: no channel is dispatched or probed more than once, whatever
\* max_attempts is, and at return every channel has been dispatched once,
\* every task has finished and no probe is active.
C3_ExactlyOnce ==
  /\ \A k \in Slots : dispatched[k] <= 1 /\ probes[k] <= 1
  /\ pc = "returned" =>
       /\ \A k \in DOMAIN channels : dispatched[k] = 1 /\ tpc[k] = "done"
       /\ _active_tasks = 0
       /\ ActiveTasks = {}

\* returned from a two-channel batch with max_attempts 3 and a failed probe
C3_Witness ==
  /\ pc = "returned"
  /\ max_attempts = 3
  /\ Len(channels) = 2
  /\ \E k \in DOMAIN channels : channels[k].status = "offline" /\ probes[k] = 1

\* C4: with a limit of at least 1, a release wakes the waiting dispatcher,
\* a waiting dispatcher always has an active probe to wait for, and a
\* running batch leads to the return of test_channels with every channel
\* admitted.
C4_AdmissionLiveness ==
  /\ [][(dpc = "waiting" /\ _active_tasks' < _active_tasks) => dpc' = "woken"]_vars
  /\ [](dpc = "waiting" /\ _max_active_tasks >= 1 => _active_tasks >= 1)
  /\ (pc = "running" /\ _max_active_tasks >= 1)
       ~> (pc = "returned" /\ \A k \in DOMAIN channels : dispatched[k] = 1)

\* a release has woken the waiting dispatcher, which can now admit the
\* next channel
C4_Witness ==
  /\ pc = "running"
  /\ dpc = "woken"
  /\ _max_active_tasks >= 1
  /\ _active_tasks < _max_active_tasks
  /\ idx \in DOMAIN channels /\ dispatched[idx] = 0
  /\ \E k \in DOMAIN channels : tpc[k] = "done"

\* C5: the progress callback is called at most once per channel, only for
\* a channel that is online or offline, and once for every finished task.
C5_ProgressOnce ==
  \A k \in Slots :
    /\ cb_count[k] <= 1
    /\ cb_count[k] >= 1 => k \in DOMAIN channels /\ channels[k].status \in Terminal
    /\ tpc[k] = "done" => cb_count[k] = 1
    /\ (pc = "returned" /\ k \in DOMAIN channels) => cb_count[k] = 1

\* returned with the callback called for a whitelisted and for a failed channel
C5_Witness ==
  /\ pc = "returned"
  /\ Len(channels) = 2
  /\ \A k \in DOMAIN channels : cb_count[k] = 1
  /\ \E k \in DOMAIN channels : probes[k] = 0 /\ channels[k].status = "online"
  /\ \E k \in DOMAIN channels : channels[k].status = "offline"

\* C6: a channel that starts being processed when its host has at least
\* max_failures_per_ip recorded failures goes offline by the blocked-host
\* path: no probe, URL in the failed-URL set.
C6_BlockedHostNotProbed ==
  [][\A k \in Slots :
       (/\ k \in DOMAIN channels
        /\ tpc[k] = "ready" /\ tpc'[k] # "ready"
        /\ ~IsInWhiteList(channels[k].name, white_list)
        /\ failed_ips[ExtractIp(channels[k].url)] >= max_failures_per_ip)
       => (/\ probes'[k] = probes[k]
           /\ channels'[k].status = "offline"
           /\ channels[k].url \in failed_urls')]_vars

\* C7: a host whose failure counter has reached max_failures_per_ip is in
\* the blocked set.
C7_ThresholdBlocks ==
  \A h \in Hosts : failed_ips[h] >= max_failures_per_ip => h \in blocked_ips

\* C8: a channel whose lower-cased name is in the whitelist is never
\* probed, is online once its task has run, and no step of its task
\* changes the failure counters, the blocked set or the failed-URL set.
C8_WhitelistFrame ==
  /\ [](\A k \in Slots :
          Whitelisted(k) =>
            /\ probes[k] = 0
            /\ tpc[k] \in {"finally", "done"} => channels[k].status = "online")
  /\ [][\A k \in Slots :
          (Whitelisted(k) /\ pc = "running" /\ pc' = "running" /\ tpc'[k] # tpc[k])
          => UNCHANGED <<failed_ips, blocked_ips, failed_urls, caller_failed>>]_vars

\* a whitelisted channel is done, online and unprobed
C8_Witness ==
  \E k \in Slots :
    /\ Whitelisted(k)
    /\ tpc[k] = "done"
    /\ channels[k].status = "online"
    /\ probes[k] = 0

\* C9: a name that equals a whitelist entry ignoring letter case is
\* treated as whitelisted.
C9_CaseInsensitive ==
  fn_out # <<>> =>
    ((\E w \in fn_in.wl : Lower(w) = Lower(fn_in.name)) => fn_out[1])

\* C10: at return the set object supplied by the caller holds the URL of
\* every offline channel of the batch.
C10_CallerSetPopulated ==
  (pc = "returned" /\ caller_failed.supplied) =>
    \A k \in DOMAIN channels :
      channels[k].status = "offline" => channels[k].url \in caller_failed.elems

\* a task of the current invocation ended by the exception of its callback
CallbackRaised(k) == k \in DOMAIN channels /\ tpc[k] = "raised"

\* C11 as stated: test_channels never raises once a channel has been
\* processed, and a channel whose processing raised an error, the error of
\* a raising progress callback included, is offline.
C11_ErrorsBecomeOffline ==
  /\ pc = "raised" => \A k \in Slots : dispatched[k] = 0
  /\ \A k \in Slots : CallbackRaised(k) => channels[k].status = "offline"

\* C11 amended: test_channels raises only when no channel was processed
\* (the error is the session's); an error of a channel's probe leaves that
\* channel offline; an error raised by the progress callback ends only that
\* channel's task and leaves the channel with the terminal status it had
\* been given, online included; and when test_channels has returned after
\* processing channels, every channel of the batch has a terminal status.
C11_ErrorsConfined ==
  /\ [](pc = "raised" => \A k \in Slots : dispatched[k] = 0)
  /\ [](\A k \in Slots : CallbackRaised(k) => channels[k].status \in Terminal)
  /\ []((pc = "returned" /\ \E k \in Slots : dispatched[k] > 0)
          => \A k \in DOMAIN channels : channels[k].status \in Terminal)
  /\ [][\A k \in Slots, net \in NetResponses :
          (ProbeComplete(k, net) /\ (net.head \in Raising \/ net.get \in Raising))
            => channels'[k].status = "offline"]_vars

\* test_channels has returned, a callback had raised for an online channel
\* and another channel of the batch is offline after a failed probe
C11_Witness ==
  /\ pc = "returned"
  /\ \E k, j \in DOMAIN channels :
       /\ k # j
       /\ CallbackRaised(k) /\ channels[k].status = "online"
       /\ probes[j] = 1 /\ channels[j].status = "offline"

\* C14: the connector of an invocation is closed whenever test_channels has
\* been left, by a return (normal, or after a swallowed error) or by a
\* re-raised error, and it is open only while the invocation runs.
C14_ConnectorClosed ==
  /\ pc \in {"returned", "raised"} => connector = "closed"
  /\ connector = "open" => pc = "running"
  /\ pc = "idle" => connector = "none"

\* test_channels was left by the error it re-raised, the connector closed
C14_Witness == pc = "raised" /\ connector = "closed" /\ Len(channels) > 0

\* C12: a channel that is set offline has its URL in the failed set by the
\* same step, and that step adds exactly one to the counter of the channel's
\* host and leaves the other counters alone; so in every state the counter
\* of a host is the number of channels of that host set offline since the
\* last reset, whatever the order in which concurrent probes complete.
C12_FailureEffects ==
  /\ [](\A h \in Hosts : failed_ips[h] = offline_by_host[h])
  /\ [](\A k \in DOMAIN channels :
          channels[k].status = "offline" => channels[k].url \in failed_urls)
  /\ [][\A k \in DOMAIN channels :
          (/\ pc = "running" /\ pc' = "running"
           /\ channels[k].status # "offline"
           /\ channels'[k].status = "offline")
            => /\ channels[k].url \in failed_urls'
               /\ failed_ips' = [failed_ips EXCEPT
                                   ![ExtractIp(channels[k].url)] = @ + 1]]_vars

\* two probes on one host were in flight together and both failed
C12_Witness ==
  /\ Len(channels) = 2
  /\ \A k \in {1, 2} : tpc[k] = "finally" /\ probes[k] = 1
                          /\ channels[k].status = "offline"
  /\ channels[1].url = channels[2].url
  /\ failed_ips[ExtractIp(channels[1].url)] >= 2

\* the probe on its own has run
Probed == fn_out # <<>> /\ DOMAIN fn_in = {"ch", "net"}

\* the HEAD request of the probe got a response that lets phase 2 start
HeadPassed ==
  /\ fn_in.net.head = "200"
  /\ fn_in.net.latency <= MaxLatency(fn_in.ch.url)

\* C13: a probe whose HEAD or GET request times out leaves the channel
\* offline with the failure bookkeeping done and the reason "timeout".
C13_TimeoutReason ==
  (/\ Probed
   /\ \/ fn_in.net.head = "timeout"
      \/ HeadPassed /\ fn_in.net.get = "timeout")
    => /\ fn_out[1].channel.status = "offline"
       /\ fn_out[1].failed
       /\ fn_out[1].reason = "timeout"

\* C18: the probe issues HEAD first and GET only after a HEAD response with
\* status 200 and a latency within the maximum of the channel's class; a
\* HEAD response with another status or a higher latency ends the probe
\* with (failure, speed 0, the measured latency), HEAD being the only
\* request, and the channel is offline.
C18_HeadThenGet ==
  Probed =>
    LET net == fn_in.net
        r == fn_out[1].result
    IN /\ r.requests[1] = "HEAD"
       /\ "GET" \in Range(r.requests)
            => r.requests = <<"HEAD", "GET">> /\ HeadPassed
       /\ (net.head \notin Raising /\ ~HeadPassed)
            => /\ r.requests = <<"HEAD">>
               /\ ~r.success /\ r.speed = 0 /\ r.latency = net.latency
               /\ fn_out[1].channel.status = "offline"

\* a UDP-class channel answered HEAD with 200 after more than 300 ms
C18_Witness ==
  /\ Probed
  /\ IsUdpUrl(fn_in.ch.url) /\ fn_in.net.head = "200"
  /\ fn_in.net.latency = 400 /\ fn_in.net.get = "ok"
  /\ fn_out[1].result.requests = <<"HEAD">>
  /\ fn_out[1].result.latency = 400
  /\ fn_out[1].channel.status = "offline"

\* C19: after a passed HEAD phase and a completed download the probe
\* succeeds exactly when the measured speed is at least the minimum of the
\* channel's class (30 for UDP-class, 100 otherwise); a success leaves the
\* channel online with response_time the latency and download_speed the
\* speed; a failure leaves it offline with both fields as they were.
C19_SpeedVerdict ==
  (Probed /\ HeadPassed) =>
    LET net == fn_in.net
        o == fn_out[1]
        min_speed == IF IsUdpUrl(fn_in.ch.url) THEN 30 ELSE 100
    IN /\ net.get = "ok" => (o.result.success <=> net.speed >= min_speed)
       /\ o.result.success
            => /\ o.channel.status = "online"
               /\ o.channel.response_time = net.latency
               /\ o.channel.download_speed = net.speed
       /\ ~o.result.success
            => /\ o.channel.status = "offline"
               /\ o.channel.response_time = fn_in.ch.response_time
               /\ o.channel.download_speed = fn_in.ch.download_speed

\* a UDP-class channel with a speed between the two minima is online
C19_Witness ==
  /\ Probed /\ HeadPassed
  /\ IsUdpUrl(fn_in.ch.url) /\ fn_in.net.get = "ok" /\ fn_in.net.speed = 50
  /\ fn_in.ch.response_time = 7
  /\ fn_out[1].channel.status = "online"
  /\ fn_out[1].channel.response_time = fn_in.net.latency
  /\ fn_out[1].channel.download_speed = 50

\* the reason has been given
Reasoned == fn_out # <<>> /\ DOMAIN fn_in = {"speed", "latency", "is_udp"}

\* C20: the reason is "insufficient speed" exactly when 0 < speed < the
\* minimum speed of the class; otherwise it is "latency exceeded" exactly
\* when the latency is above the maximum of the class; otherwise it is
\* "connection failed". So (10, 50) gives insufficient speed, (0, 1500)
\* latency exceeded and (0, 0) connection failed for an HTTP-class channel.
C20_ReasonPrecedence ==
  Reasoned =>
    LET speed == fn_in.speed
        latency == fn_in.latency
        min_speed == IF fn_in.is_udp THEN 30 ELSE 100
        max_latency == IF fn_in.is_udp THEN 300 ELSE 1000
        slow == 0 < speed /\ speed < min_speed
    IN /\ fn_out[1] = "insufficient speed" <=> slow
       /\ ~slow => (fn_out[1] = "latency exceeded" <=> latency > max_latency)
       /\ (~slow /\ latency <= max_latency) => fn_out[1] = "connection failed"
       /\ (~fn_in.is_udp /\ speed = 10 /\ latency = 50)
            => fn_out[1] = "insufficient speed"
       /\ (~fn_in.is_udp /\ speed = 0 /\ latency = 1500)
            => fn_out[1] = "latency exceeded"
       /\ (speed = 0 /\ latency = 0) => fn_out[1] = "connection failed"

\* a speed below the minimum and a latency above the maximum: the speed
\* decides
C20_Witness ==
  /\ Reasoned
  /\ ~fn_in.is_udp /\ fn_in.speed = 10 /\ fn_in.latency = 1500
  /\ fn_out[1] = "insufficient speed"

\* the channels of the current invocation that a probe found online
ProbedOnline ==
  {k \in DOMAIN channels : probes[k] = 1 /\ channels[k].status = "online"}

\* C17: the step that starts an invocation sets success_count to 0 and
\* total_count to the number of channels submitted and leaves failed_ips,
\* blocked_ips and ip_cooldown as the earlier invocations left them; during
\* and after the invocation success_count counts the successful probes of
\* this invocation only.
C17_StatsPerInvocation ==
  /\ [][(pc # "running" /\ pc' = "running")
          => /\ success_count' = 0
             /\ total_count' = Len(channels')
             /\ failed_ips' = failed_ips
             /\ blocked_ips' = blocked_ips
             /\ ip_cooldown' = ip_cooldown]_vars
  /\ [](pc \in {"running", "returned"}
          => /\ total_count = Len(channels)
             /\ success_count = Cardinality(ProbedOnline))

\* a later invocation of one channel has ended with its one success while
\* the failure of an earlier invocation is still counted for another host
C17_Witness ==
  /\ batches >= 2 /\ pc = "returned"
  /\ total_count = 1 /\ success_count = 1
  /\ failed_ips[ExtractIp(channels[1].url)] = 0
  /\ \E h \in Hosts : failed_ips[h] >= 1

\* the step is a call of clear_resources
ResetStep == fn_out' # fn_out

\* nothing is left for clear_resources to clear
GuardClear ==
  /\ \A h \in Hosts : failed_ips[h] = 0
  /\ blocked_ips = {}
  /\ ip_cooldown = {}
  /\ _active_tasks = 0

\* C15: clear_resources leaves every failure counter at 0 and the blocked
\* set and the cooldown map empty, so no host is at the threshold or blocked
\* after it; a channel of a host that had reached the threshold before the
\* reset, once its task has started and unless it is whitelisted, is probed
\* in the invocations after the reset; and clear_resources applied to a
\* state it has just produced changes nothing.
C15_ResetClears ==
  /\ [][ResetStep => /\ \A h \in Hosts : failed_ips'[h] = 0
                     /\ blocked_ips' = {}
                     /\ ip_cooldown' = {}
                     /\ AtThreshold' = {}]_vars
  /\ [][(ResetStep /\ GuardClear) => UNCHANGED engine]_vars
  /\ [](\A k \in DOMAIN channels :
          (/\ ExtractIp(channels[k].url) \in fn_in.due
           /\ tpc[k] \in {"probing", "finally", "done"}
           /\ ~Whitelisted(k))
            => /\ probes[k] = 1
               /\ channels[k].url \notin blocked_ips)

\* a host was at the threshold when clear_resources ran; in the invocation
\* after it a channel of the host is being probed, its counter at 0
C15_Witness ==
  /\ batches >= 2 /\ pc = "running"
  /\ \E k \in DOMAIN channels :
       /\ ExtractIp(channels[k].url) \in fn_in.due
       /\ tpc[k] = "probing"
       /\ failed_ips[ExtractIp(channels[k].url)] = 0

\* C16: every member of the blocked set has a failure counter of at least
\* max_failures_per_ip, and no step other than clear_resources lowers the
\* failure counter of any host.
C16_CountersMonotone ==
  /\ [](\A ip \in blocked_ips : failed_ips[ip] >= max_failures_per_ip)
  /\ [][~ResetStep => \A h \in Hosts : failed_ips'[h] >= failed_ips[h]]_vars

\* a host's counter has grown over two invocations: the one channel of the
\* current invocation failed and the counter of its host is 2
C16_Witness ==
  /\ batches >= 2 /\ Len(channels) = 1
  /\ channels[1].status = "offline"
  /\ failed_ips[ExtractIp(channels[1].url)] = 2

\* the URL has been classified
Classified ==
  fn_out # <<>> /\ DOMAIN fn_in = {"scheme", "netloc", "path", "query"}

\* the path has a segment rtp or udp with a "/" after it, in any case
PathHasSegment(url) ==
  \E k \in 1..(Len(url.path) - 1) : LowerTok(url.path[k]) \in {"rtp", "udp"}

\* C21: a URL is UDP-class exactly when its scheme is udp or rtp or its
\* path has a /rtp/ or /udp/ segment, in any case; so an http, https or
\* rtsp URL without such a path segment is HTTP-class, wherever else the
\* text /udp/ or /rtp/ occurs in it.
C21_UdpClassification ==
  Classified =>
    (fn_out[1] <=> (\/ LowerTok(fn_in.scheme) \in {"udp", "rtp"}
                    \/ PathHasSegment(fn_in)))

\* the effective concurrency has been computed
Clamped == fn_out # <<>> /\ DOMAIN fn_in = {"os", "c"}

\* C22: whatever the configured value and the platform, the effective
\* concurrency, which is the admission limit, is at least 1 and at most 100.
C22_EffectiveLimit == Clamped => (fn_out[1] >= 1 /\ fn_out[1] <= 100)

\* the channels of the current invocation with the given status
WithStatus(st) == {k \in DOMAIN channels : channels[k].status = st}

\* C23: once test_channels has returned, success_count is the number of
\* online channels of the batch, the whitelisted ones included, and
\* total_count - success_count is the number of offline channels.
C23_CountsMatchStatus ==
  pc = "returned"
    => /\ success_count = Cardinality(WithStatus("online"))
       /\ total_count - success_count = Cardinality(WithStatus("offline"))

\* the playlist has been parsed
Parsed == fn_out # <<>> /\ DOMAIN fn_in = {"lines"}

\* C24: parse yields the channels (names, URLs, categories), in order, that
\* _parse_batch yields for all the lines as one batch, whatever the batch
\* size parse chooses.
C24_BatchingIndependent ==
  Parsed => fn_out[1] = ParseBatch(fn_in.lines, NoValue, NoLine)
====
